---------------------------- MODULE Spec2Model ----------------------------
(***************************************************************************)
(* A model of the SQLite MCP server (src/sqlite-mcp-server): the query     *)
(* safety check and the store operations of database.py, the four request  *)
(* handlers of server.py, and the message loop that drives them.           *)
(*                                                                         *)
(* Strings are sequences of characters, a character being a one-character  *)
(* TLA+ string.  Two characters outside ASCII are written by name: "NBSP"  *)
(* (U+00A0, white space to Python's str.strip but not to SQLite) and       *)
(* "LONGS" (U+017F, whose str.upper() is "S").                             *)
(***************************************************************************)
EXTENDS Integers, Sequences, FiniteSets, TLC

VARIABLES
    store,        \* the database file: existing table name -> sequence of rows
    storeFails,   \* the storage engine cannot be reached (sqlite3.connect raises)
    input,        \* the query string handed to SQLiteDatabase.execute_query directly
    last,         \* outcome of the last direct SQLiteDatabase.execute_query call
    wire,         \* requests the peer has written that the Session has not read yet
    current,      \* the request the Session is handling (NoRequest when idle)
    outcome,      \* what the handler of `current` returned or raised
    responses,    \* the responses written to the peer, in order
    session,      \* "running", "closed" (stream closed) or "crashed" (a fault escaped)
    initialized,  \* the initialize handshake has completed
    eof,          \* the peer has closed its end of the stream
    nextId        \* the correlation token of the next request to arrive

vars == <<store, storeFails, input, last, wire, current, outcome, responses,
          session, initialized, eof, nextId>>

-----------------------------------------------------------------------------
(* Bounds of the model.                                                    *)

\* the number of fragments a directly submitted query string is built from
MaxFrags == 3
\* the number of requests the peer sends in one run
MaxRequests == 4
\* the number of requests the transport holds unread
MaxWire == 2

-----------------------------------------------------------------------------
(* Strings.                                                                *)

LowerLetters == <<"a","b","c","d","e","f","g","h","i","j","k","l","m",
                  "n","o","p","q","r","s","t","u","v","w","x","y","z">>
UpperLetters == <<"A","B","C","D","E","F","G","H","I","J","K","L","M",
                  "N","O","P","Q","R","S","T","U","V","W","X","Y","Z">>
Digits == {"0","1","2","3","4","5","6","7","8","9"}

Range(s) == {s[i] : i \in 1..Len(s)}

\* the upper-case letter of each lower-case ASCII letter
UpperOf == [c \in Range(LowerLetters) |->
              UpperLetters[CHOOSE i \in 1..26 : LowerLetters[i] = c]]

\* str.upper() on one character
UpperChar(c) ==
    IF c \in DOMAIN UpperOf THEN UpperOf[c]
    ELSE IF c = "LONGS" THEN "S" ELSE c

\* str.upper()
Upper(s) == [i \in 1..Len(s) |-> UpperChar(s[i])]

\* the characters str.strip() removes
PyWhitespace == {" ", "NBSP"}

\* str.strip()
Strip(s) ==
    LET keep == {i \in 1..Len(s) : s[i] \notin PyWhitespace}
    IN  IF keep = {} THEN <<>>
        ELSE SubSeq(s, CHOOSE i \in keep : \A j \in keep : i <= j,
                       CHOOSE i \in keep : \A j \in keep : j <= i)

\* str.startswith(p)
StartsWith(s, p) == Len(s) >= Len(p) /\ SubSeq(s, 1, Len(p)) = p

\* p in s
Contains(s, p) ==
    \E i \in 1..(Len(s) - Len(p) + 1) : SubSeq(s, i, i + Len(p) - 1) = p

\* the first index at which p occurs in s, 0 when it does not
IndexOf(s, p) ==
    LET at == {i \in 1..(Len(s) - Len(p) + 1) : SubSeq(s, i, i + Len(p) - 1) = p}
    IN  IF at = {} THEN 0 ELSE CHOOSE i \in at : \A j \in at : i <= j

\* the rest of s from index i on
From(s, i) == SubSeq(s, i, Len(s))


\* a string literal of the source, written out character by character
SELECT == <<"S","E","L","E","C","T">>
DROP   == <<"D","R","O","P">>
DELETE == <<"D","E","L","E","T","E">>
UPDATE == <<"U","P","D","A","T","E">>
INSERT == <<"I","N","S","E","R","T">>
ALTER  == <<"A","L","T","E","R">>
CREATE == <<"C","R","E","A","T","E">>
TABLE  == <<"T","A","B","L","E">>
FROM   == <<"F","R","O","M">>
INTO   == <<"I","N","T","O">>
users    == <<"u","s","e","r","s">>
products == <<"p","r","o","d","u","c","t","s">>

-----------------------------------------------------------------------------
(* The store and the storage engine.  The engine is sqlite3, which the     *)
(* repository calls and does not contain; what is modelled is the part of  *)
(* its behaviour the calls of database.py rely on: one statement per       *)
(* execute(), keywords matched without regard to ASCII case, a SELECT      *)
(* reads, and DROP / DELETE / INSERT / CREATE change the named table.      *)
(* A row is known by its key.  A SELECT yields the rows of the table after *)
(* its FROM, cut by a bound LIMIT: exact for the statement get_table_data  *)
(* builds; the WHERE clauses and select lists of other statements are not  *)
(* evaluated.                                                              *)

\* the rows create_sample_data inserts (database.py, lines 154-169)
SampleUsers == <<"john@example.com", "jane@example.com",
                 "bob@example.com", "alice@example.com">>
SampleProducts == <<"Laptop", "Mouse", "Keyboard", "Desk Chair", "Monitor">>

EmptyStore == <<>>
SeededStore == (users :> SampleUsers) @@ (products :> SampleProducts)

\* database files made elsewhere and handed to the server with --db-path: one
\* that has, beside the sample tables, a table named updates, a table events
\* with one row more than a resource read returns and a table named sqlitex;
\* and one with a table whose name has a hyphen
updates    == <<"u","p","d","a","t","e","s">>
events     == <<"e","v","e","n","t","s">>
sqlitex    == <<"s","q","l","i","t","e","x">>
my_table_1 == <<"m","y","-","t","a","b","l","e","_","1">>
LoggedStore ==
    SeededStore @@ (updates :> <<"u1", "u2">>)
                @@ (events :> [i \in 1..51 |-> ToString(i)])
                @@ (sqlitex :> <<"x1">>)
HyphenStore == (users :> SampleUsers) @@ (my_table_1 :> <<"r1">>)

InitialStores == {EmptyStore, SeededStore, LoggedStore, HyphenStore}

\* the events a handler causes at the storage engine
Connect == "connect"
Execute == "execute"
\* leaving the connection's with block: commit, or rollback on an exception
Commit   == "commit"
Rollback == "rollback"

SqlWhitespace == {" "}

\* ASCII-only upper-casing: how SQLite compares keywords and names
AsciiUpperChar(c) == IF c \in DOMAIN UpperOf THEN UpperOf[c] ELSE c
AsciiUpper(s) == [i \in 1..Len(s) |-> AsciiUpperChar(s[i])]

\* the characters of an SQL identifier or keyword (every non-ASCII character is one)
IdentChars == Range(LowerLetters) \cup Range(UpperLetters) \cup Digits
              \cup {"_", "NBSP", "LONGS"}

\* s without its leading SQL white space
SqlSkip(s) ==
    LET keep == {i \in 1..Len(s) : s[i] \notin SqlWhitespace}
    IN  IF keep = {} THEN <<>>
        ELSE From(s, CHOOSE i \in keep : \A j \in keep : i <= j)

\* the longest prefix of s made of identifier characters
TakeIdent(s) ==
    LET stop == {i \in 1..Len(s) : s[i] \notin IdentChars}
    IN  IF stop = {} THEN s
        ELSE SubSeq(s, 1, (CHOOSE i \in stop : \A j \in stop : i <= j) - 1)

\* the n-th word of a statement (n = 1, 2, 3), as written
Word(q, n) ==
    LET s1 == SqlSkip(q)
        w1 == TakeIdent(s1)
        s2 == SqlSkip(From(s1, Len(w1) + 1))
        w2 == TakeIdent(s2)
        s3 == SqlSkip(From(s2, Len(w2) + 1))
    IN  IF n = 1 THEN w1 ELSE IF n = 2 THEN w2 ELSE TakeIdent(s3)

\* text follows the first statement's semicolon
SecondStatement(q) ==
    \E i \in 1..Len(q) : q[i] = ";" /\ \E j \in (i+1)..Len(q) : q[j] \notin SqlWhitespace

\* the number of ? placeholders
Placeholders(q) == Cardinality({i \in 1..Len(q) : q[i] = "?"})

\* the table a SELECT reads: the identifier after its first FROM, <<>> without one
SelectTable(q) ==
    LET i == IndexOf(AsciiUpper(q), <<" ">> \o FROM \o <<" ">>)
    IN  IF i = 0 THEN <<>> ELSE TakeIdent(SqlSkip(From(q, i + 6)))

\* the identifier after FROM is followed by a character that cannot follow a
\* table name (as the hyphen of an unquoted my-table)
BrokenTableName(q) ==
    LET i == IndexOf(AsciiUpper(q), <<" ">> \o FROM \o <<" ">>)
        rest == SqlSkip(From(q, i + 6))
        after == From(rest, Len(TakeIdent(rest)) + 1)
    IN  /\ i /= 0
        /\ after /= <<>>
        /\ after[1] \notin SqlWhitespace \cup {";", ","}

\* the table of the store that an identifier names, <<>> when there is none
Lookup(st, ident) ==
    LET hit == {t \in DOMAIN st : AsciiUpper(t) = AsciiUpper(ident)}
    IN  IF hit = {} THEN <<>> ELSE CHOOSE t \in hit : TRUE

\* the first min(n, Len(rows)) rows; a negative LIMIT is no limit
Limit(rows, n) ==
    IF n < 0 \/ n >= Len(rows) THEN rows ELSE SubSeq(rows, 1, n)

EngineError(st, m) == [ok |-> FALSE, msg |-> m, rows |-> <<>>, store |-> st]
EngineRows(st, r)  == [ok |-> TRUE, msg |-> "", rows |-> r, store |-> st]

\* f without the key t
Without(f, t) == [k \in DOMAIN f \ {t} |-> f[k]]

\* what follows the first word of a statement
AfterVerb(q) == SqlSkip(From(SqlSkip(q), Len(TakeIdent(SqlSkip(q))) + 1))

\* what the engine does with one statement whose first two words are verb and
\* second, whose third word names the table `target` of the store (<<>>: none)
\* and which, as a SELECT, reads the table `read`
RunStatement(st, query, params, verb, second, target, read) ==
    IF SecondStatement(query)
    THEN EngineError(st, "You can only execute one statement at a time.")
    ELSE IF Placeholders(query) /= Len(params)
    THEN EngineError(st, "Incorrect number of bindings supplied.")
    ELSE IF verb = SELECT
    THEN IF AfterVerb(query) = <<>> \/ AfterVerb(query)[1] = ";"
         THEN EngineError(st, "incomplete input")
         ELSE IF ~Contains(AsciiUpper(query), FROM)
         THEN EngineRows(st, <<"1">>)
         ELSE IF read = <<>>
         THEN EngineError(st, "no such table")
         ELSE IF params /= <<>>
         THEN EngineRows(st, Limit(st[read], params[1]))
         ELSE EngineRows(st, st[read])
    ELSE IF target = <<>> /\ <<verb, second>> \in
                {<<DROP, TABLE>>, <<DELETE, FROM>>, <<INSERT, INTO>>}
    THEN EngineError(st, "no such table")
    ELSE IF verb = DROP /\ second = TABLE
    THEN EngineRows(Without(st, target), <<>>)
    ELSE IF verb = DELETE /\ second = FROM
    THEN EngineRows([st EXCEPT ![target] = <<>>], <<>>)
    ELSE IF verb = INSERT /\ second = INTO
    THEN EngineRows([st EXCEPT ![target] = Append(@, "inserted")], <<>>)
    ELSE IF verb = CREATE /\ second = TABLE /\ target = <<>>
            /\ Word(query, 3) /= <<>>
    THEN EngineRows(st @@ (Word(query, 3) :> <<>>), <<>>)
    ELSE EngineError(st, "syntax error")

\* conn.execute(query, params), cursor.fetchall() and the commit on leaving the
\* connection's with block
EngineExecute(st, query, params) ==
    IF BrokenTableName(query) THEN EngineError(st, "syntax error")
    ELSE
    RunStatement(st, query, params,
                 AsciiUpper(Word(query, 1)), AsciiUpper(Word(query, 2)),
                 Lookup(st, Word(query, 3)), Lookup(st, SelectTable(query)))

-----------------------------------------------------------------------------
(* database.py: SQLiteDatabase.                                            *)

\* what a method of SQLiteDatabase does: it returns `value` or raises `exc`
\* with message `msg` (completed by `arg`), leaves the store as `store` and
\* has caused the storage events `ops`; `statement` and `bound` are the text and
\* the parameters execute_query has handed to conn.execute (<<>>: nothing)
Returns(v, st, o) ==
    [raised |-> FALSE, exc |-> "", msg |-> "", arg |-> <<>>,
     value |-> v, store |-> st, ops |-> o, statement |-> <<>>, bound |-> <<>>]
Raises(e, m, a, st, o) ==
    [raised |-> TRUE, exc |-> e, msg |-> m, arg |-> a,
     value |-> <<>>, store |-> st, ops |-> o, statement |-> <<>>, bound |-> <<>>]

dangerous_patterns == <<DROP, DELETE, UPDATE, INSERT, ALTER, CREATE>>

OnlySelectMsg == "Only SELECT queries are allowed for safety"
DangerousMsg  == "Query contains dangerous pattern: "

Safe == [safe |-> TRUE, msg |-> "", pattern |-> <<>>]
Rejected(m, p) == [safe |-> FALSE, msg |-> m, pattern |-> p]

\* QueryGuard with the pattern scan before the SELECT test
QueryGuard_PatternsFirst(query) ==
    LET query_stripped == Upper(Strip(query))
        hits == {i \in 1..Len(dangerous_patterns) :
                    Contains(query_stripped, dangerous_patterns[i])}
    IN  IF hits /= {}
        THEN Rejected(DangerousMsg,
                      dangerous_patterns[CHOOSE i \in hits : \A j \in hits : i <= j])
        ELSE IF ~StartsWith(query_stripped, SELECT)
        THEN Rejected(OnlySelectMsg, <<>>)
        ELSE Safe

\* QueryGuard naming the pattern that occurs first in the text
QueryGuard_FirstInText(query) ==
    LET query_stripped == Upper(Strip(query))
        hits == {i \in 1..Len(dangerous_patterns) :
                    Contains(query_stripped, dangerous_patterns[i])}
    IN  IF ~StartsWith(query_stripped, SELECT)
        THEN Rejected(OnlySelectMsg, <<>>)
        ELSE IF hits /= {}
        THEN Rejected(DangerousMsg,
                      dangerous_patterns[CHOOSE i \in hits : \A j \in hits :
                          IndexOf(query_stripped, dangerous_patterns[i])
                              <= IndexOf(query_stripped, dangerous_patterns[j])])
        ELSE Safe

\* QueryGuard without upper(): the tests are made on the text as written
QueryGuard_CaseSensitive(query) ==
    LET query_stripped == Strip(query)
        hits == {i \in 1..Len(dangerous_patterns) :
                    Contains(query_stripped, dangerous_patterns[i])}
    IN  IF ~StartsWith(query_stripped, SELECT)
        THEN Rejected(OnlySelectMsg, <<>>)
        ELSE IF hits /= {}
        THEN Rejected(DangerousMsg,
                      dangerous_patterns[CHOOSE i \in hits : \A j \in hits : i <= j])
        ELSE Safe

\* the safety check at the top of execute_query
QueryGuard(query) ==
    LET query_stripped == Upper(Strip(query))
        hits == {i \in 1..Len(dangerous_patterns) :
                    Contains(query_stripped, dangerous_patterns[i])}
    IN  IF ~StartsWith(query_stripped, SELECT)
        THEN Rejected(OnlySelectMsg, <<>>)
        ELSE IF hits /= {}
        THEN Rejected(DangerousMsg,
                      dangerous_patterns[CHOOSE i \in hits : \A j \in hits : i <= j])
        ELSE Safe

\* raise ValueError(...) of a rejecting guard
RaiseRejected(guard, st) == Raises("ValueError", guard.msg, guard.pattern, st, <<>>)

\* the with block of execute_query, the statement having been executed
FetchAll(done) ==
    IF ~done.ok
    THEN Raises("OperationalError", done.msg, <<>>, done.store,
                <<Connect, Execute, Rollback>>)
    ELSE Returns(done.rows, done.store, <<Connect, Execute, Commit>>)

\* r, with the text and the parameters that conn.execute was given
Sent(r, query, params) == [r EXCEPT !.statement = query, !.bound = params]

\* execute_query with the statement executed before the safety check
execute_query_EngineFirst(st, fails, query, params) ==
    IF fails
    THEN Raises("OperationalError", "unable to open database file", <<>>,
                st, <<Connect>>)
    ELSE IF ~QueryGuard(query).safe
    THEN Raises("ValueError", QueryGuard(query).msg, QueryGuard(query).pattern,
                EngineExecute(st, query, params).store,
                <<Connect, Execute, Rollback>>)
    ELSE FetchAll(EngineExecute(st, query, params))

\* execute_query without the safety check
execute_query_Unguarded(st, fails, query, params) ==
    IF fails
    THEN Raises("OperationalError", "unable to open database file", <<>>,
                st, <<Connect>>)
    ELSE FetchAll(EngineExecute(st, query, params))

\* execute_query handing the trimmed, uppercased copy to conn.execute
execute_query_SendsCopy(st, fails, query, params) ==
    IF ~QueryGuard(query).safe
    THEN RaiseRejected(QueryGuard(query), st)
    ELSE IF fails
    THEN Raises("OperationalError", "unable to open database file", <<>>,
                st, <<Connect>>)
    ELSE Sent(FetchAll(EngineExecute(st, Upper(Strip(query)), params)),
              Upper(Strip(query)), params)

\* SQLiteDatabase.execute_query(query, params)
execute_query(st, fails, query, params) ==
    IF ~QueryGuard(query).safe
    THEN RaiseRejected(QueryGuard(query), st)
    ELSE IF fails
    THEN Raises("OperationalError", "unable to open database file", <<>>,
                st, <<Connect>>)
    ELSE Sent(FetchAll(EngineExecute(st, query, params)), query, params)

\* str.replace(c, '')
RECURSIVE Remove(_, _)
Remove(s, c) ==
    IF s = <<>> THEN <<>>
    ELSE IF Head(s) = c THEN Remove(Tail(s), c)
    ELSE <<Head(s)>> \o Remove(Tail(s), c)

\* str.isalnum(): not empty, and letters and digits only ("LONGS" is a letter)
IsAlnum(s) ==
    /\ s /= <<>>
    /\ Range(s) \subseteq Range(LowerLetters) \cup Range(UpperLetters) \cup Digits
                          \cup {"LONGS"}

InvalidTableMsg == "Invalid table name"
SelectAllFrom == <<"S","E","L","E","C","T"," ","*"," ","F","R","O","M"," ">>
LimitClause   == <<" ","L","I","M","I","T"," ","?">>

\* a get_table_data that takes the rows it returns out of the table
get_table_data_Consuming(st, fails, table_name, limit) ==
    IF ~IsAlnum(Remove(Remove(table_name, "_"), "-"))
    THEN Raises("ValueError", InvalidTableMsg, <<>>, st, <<>>)
    ELSE IF fails \/ table_name \notin DOMAIN st
    THEN execute_query(st, fails, SelectAllFrom \o table_name \o LimitClause,
                       <<limit>>)
    ELSE Returns(Limit(st[table_name], limit), [st EXCEPT ![table_name] = <<>>],
                 <<Connect, Execute, Commit>>)

\* SQLiteDatabase.get_table_data(table_name, limit)
get_table_data(st, fails, table_name, limit) ==
    IF ~IsAlnum(Remove(Remove(table_name, "_"), "-"))
    THEN Raises("ValueError", InvalidTableMsg, <<>>, st, <<>>)
    ELSE execute_query(st, fails, SelectAllFrom \o table_name \o LimitClause,
                       <<limit>>)

\* the characters of table names in code-point order
CodeOrder == <<" ", "-", ".", "/">> \o
             <<"0","1","2","3","4","5","6","7","8","9">> \o
             UpperLetters \o <<"_">> \o LowerLetters \o <<"NBSP", "LONGS">>
Code(c) == CHOOSE i \in 1..Len(CodeOrder) : CodeOrder[i] = c

\* a < b in SQLite's BINARY collation
RECURSIVE Less(_, _)
Less(a, b) ==
    IF b = <<>> THEN FALSE
    ELSE IF a = <<>> THEN TRUE
    ELSE IF Head(a) /= Head(b) THEN Code(Head(a)) < Code(Head(b))
    ELSE Less(Tail(a), Tail(b))

\* the names of S in ascending order (ORDER BY name)
RECURSIVE OrderByName(_)
OrderByName(S) ==
    IF S = {} THEN <<>>
    ELSE LET least == CHOOSE a \in S : \A b \in S \ {a} : Less(a, b)
         IN  <<least>> \o OrderByName(S \ {least})

\* name NOT LIKE 'sqlite_%': in LIKE, _ stands for any one character
NotLikeSqlite(name) ==
    ~(Len(name) >= 7 /\ AsciiUpper(SubSeq(name, 1, 6)) = <<"S","Q","L","I","T","E">>)

\* PRAGMA table_info(<name>) parses: the name is put into the statement unquoted
PragmaParses(name) ==
    /\ name /= <<>>
    /\ Range(name) \subseteq IdentChars
    /\ name[1] \notin Digits

\* the tables get_schema lists, the names in order being `names`
TableList(st, names) ==
    IF \E i \in 1..Len(names) : ~PragmaParses(names[i])
    THEN Raises("OperationalError", "syntax error", <<>>, st,
                <<Connect, Execute, Rollback>>)
    ELSE Returns([i \in 1..Len(names) |-> [name |-> names[i]]], st,
                 <<Connect, Execute, Commit>>)

\* SQLiteDatabase.get_schema()
get_schema(st, fails) ==
    IF fails
    THEN Raises("OperationalError", "unable to open database file", <<>>,
                st, <<Connect>>)
    ELSE TableList(st, OrderByName({t \in DOMAIN st : NotLikeSqlite(t)}))

\* rows with those of extra appended whose key no row has yet (INSERT OR IGNORE
\* under a UNIQUE column)
RECURSIVE InsertOrIgnore(_, _)
InsertOrIgnore(rows, extra) ==
    IF extra = <<>> THEN rows
    ELSE InsertOrIgnore(IF Head(extra) \in Range(rows) THEN rows
                        ELSE Append(rows, Head(extra)),
                        Tail(extra))

\* a create_sample_data that returns with its transaction still open
create_sample_data_Uncommitted(st, fails) ==
    IF fails
    THEN Raises("OperationalError", "unable to open database file", <<>>,
                st, <<Connect>>)
    ELSE Returns(<<>>, st, <<Connect, Execute>>)

\* SQLiteDatabase.create_sample_data()
create_sample_data(st, fails) ==
    LET old(t) == IF t \in DOMAIN st THEN st[t] ELSE <<>>
        new == (users :> InsertOrIgnore(old(users), SampleUsers))
               @@ (products :> old(products) \o SampleProducts)
               @@ st
    IN  IF fails
        THEN Raises("OperationalError", "unable to open database file", <<>>,
                    st, <<Connect>>)
        ELSE Returns(<<>>, new, <<Connect, Execute, Commit>>)

-----------------------------------------------------------------------------
(* server.py: the handlers SQLiteMCPServer._setup_handlers registers.      *)

SchemaUri   == <<"s","q","l","i","t","e",":","/","/","s","c","h","e","m","a">>
TablePrefix == <<"s","q","l","i","t","e",":","/","/","t","a","b","l","e","/">>

ExecuteQueryTool     == <<"e","x","e","c","u","t","e","_","q","u","e","r","y">>
GetTableSchemaTool   == <<"g","e","t","_","t","a","b","l","e","_","s","c","h","e","m","a">>
ListTablesTool       == <<"l","i","s","t","_","t","a","b","l","e","s">>
GetTableDataTool     == <<"g","e","t","_","t","a","b","l","e","_","d","a","t","a">>
CreateSampleDataTool == <<"c","r","e","a","t","e","_","s","a","m","p","l","e","_","d","a","t","a">>
\* the tool name the protocol tests call (test_server.py)
QueryDatabaseTool == <<"q","u","e","r","y","_","d","a","t","a","b","a","s","e">>

\* the texts the handlers build: f"Error: {e}", json.dumps(data),
\* json.dumps({"error": str(e)}) and a literal
ErrorText(m, a) == [form |-> "Error: {e}", msg |-> m, arg |-> a, data |-> <<>>]
JsonText(v)     == [form |-> "json", msg |-> "", arg |-> <<>>, data |-> v]
ErrorJson(m, a) == [form |-> "json {error: e}", msg |-> m, arg |-> a, data |-> <<>>]
Literal(l)      == [form |-> "literal", msg |-> l, arg |-> <<>>, data |-> <<>>]

TextContent(x) == [type |-> "text", text |-> x]
Resource(u)    == [uri |-> u, mimeType |-> "application/json"]

\* what a handler does: it returns `value` to the Session or lets an exception
\* escape to it; `failed` tells that an exception was raised while it ran, with
\* message `msg` (completed by `arg`)
HandlerReturns(v, r) ==
    [kind |-> "return", value |-> v, failed |-> r.raised, msg |-> r.msg,
     arg |-> r.arg, store |-> r.store, ops |-> r.ops]
HandlerRaises(r) ==
    [kind |-> "raise", value |-> <<>>, failed |-> TRUE, msg |-> r.msg,
     arg |-> r.arg, store |-> r.store, ops |-> r.ops]

\* dict.get(key, default)
Get(arguments, key, default) ==
    IF key \in DOMAIN arguments THEN arguments[key] ELSE default

\* uri.split("/")[-1]
LastSegment(uri) ==
    LET slashes == {i \in 1..Len(uri) : uri[i] = "/"}
    IN  IF slashes = {} THEN uri
        ELSE From(uri, (CHOOSE i \in slashes : \A j \in slashes : j <= i) + 1)

\* the default of get_table_data's limit argument
DefaultLimit == 100
\* the row cap of a per-table resource read
ResourceRowCap == 50

\* the per-table resources of a schema listing; none when the listing failed
TableResources(schema) ==
    IF schema.raised THEN <<>>
    ELSE [i \in 1..Len(schema.value) |-> Resource(TablePrefix \o schema.value[i].name)]

\* list_resources without its try: the failure of get_schema goes on
Listed_Escapes(resources, schema) ==
    IF schema.raised THEN HandlerRaises(schema)
    ELSE HandlerReturns(resources, Returns(<<>>, schema.store, schema.ops))

\* the listing ends normally whatever get_schema did
Listed(resources, schema) ==
    HandlerReturns(resources, Returns(<<>>, schema.store, schema.ops))

\* list_resources()
list_resources(st, fails) ==
    Listed(<<Resource(SchemaUri)>> \o TableResources(get_schema(st, fails)),
           get_schema(st, fails))

\* json.dumps(r) of what a store operation returned; its exception goes on
JsonDumps(r) ==
    IF r.raised THEN r ELSE Returns(JsonText(r.value), r.store, r.ops)

\* the try block of read_resource(uri)
read_resource_try(st, fails, uri) ==
    IF uri = SchemaUri
    THEN JsonDumps(get_schema(st, fails))
    ELSE IF StartsWith(uri, TablePrefix)
    THEN JsonDumps(get_table_data(st, fails, LastSegment(uri), ResourceRowCap))
    ELSE Raises("ValueError", "Unknown resource URI: ", uri, st, <<>>)

\* read_resource without its except clause
read_resource_except_Escapes(r) ==
    IF r.raised THEN HandlerRaises(r) ELSE HandlerReturns(r.value, r)

\* the except clause of read_resource: log, and return the error as JSON text
read_resource_except(r) ==
    IF r.raised THEN HandlerReturns(ErrorJson(r.msg, r.arg), r)
    ELSE HandlerReturns(r.value, r)

\* read_resource(uri)
read_resource(st, fails, uri) ==
    read_resource_except(read_resource_try(st, fails, uri))

\* a catalog that offers create_sample_data only while the store has no users
\* table
list_tools_ByStore ==
    << [name |-> ExecuteQueryTool, properties |-> {"query"},
        required |-> <<"query">>, defaults |-> <<>>],
       [name |-> GetTableSchemaTool, properties |-> {"table_name"},
        required |-> <<"table_name">>, defaults |-> <<>>],
       [name |-> ListTablesTool, properties |-> {}, required |-> <<>>,
        defaults |-> <<>>],
       [name |-> GetTableDataTool, properties |-> {"table_name", "limit"},
        required |-> <<"table_name">>, defaults |-> ("limit" :> 100)] >>
    \o IF users \in DOMAIN store THEN <<>>
       ELSE << [name |-> CreateSampleDataTool, properties |-> {},
                required |-> <<>>, defaults |-> <<>>] >>

\* list_tools(): name, properties, required properties and declared defaults
\* of each tool
list_tools ==
    << [name |-> ExecuteQueryTool, properties |-> {"query"},
        required |-> <<"query">>, defaults |-> <<>>],
       [name |-> GetTableSchemaTool, properties |-> {"table_name"},
        required |-> <<"table_name">>, defaults |-> <<>>],
       [name |-> ListTablesTool, properties |-> {}, required |-> <<>>,
        defaults |-> <<>>],
       [name |-> GetTableDataTool, properties |-> {"table_name", "limit"},
        required |-> <<"table_name">>, defaults |-> ("limit" :> 100)],
       [name |-> CreateSampleDataTool, properties |-> {}, required |-> <<>>,
        defaults |-> <<>>] >>

\* get_table_schema answering for a table the listing does not have
TableSchema_NeverMissing(schema, table_name) ==
    IF schema.raised THEN schema
    ELSE Returns(JsonText([name |-> table_name]), schema.store, schema.ops)

\* next((table for table in schema if table['name'] == table_name), None) and
\* the answer of get_table_schema
TableSchema(schema, table_name) ==
    LET found == {i \in 1..Len(schema.value) : schema.value[i].name = table_name}
    IN  IF schema.raised THEN schema
        ELSE IF found = {}
        THEN Raises("ValueError", "Table '{table_name}' not found", table_name,
                    schema.store, schema.ops)
        ELSE Returns(JsonText(schema.value[CHOOSE i \in found : \A j \in found : i <= j]),
                     schema.store, schema.ops)

\* [table['name'] for table in schema] and the answer of list_tables
TableNames(schema) ==
    IF schema.raised THEN schema
    ELSE Returns(JsonText([i \in 1..Len(schema.value) |-> schema.value[i].name]),
                 schema.store, schema.ops)

\* the answer of create_sample_data
SampleDataCreated(created) ==
    IF created.raised THEN created
    ELSE Returns(Literal("Sample data created successfully"),
                 created.store, created.ops)

\* an argument check that asks only whether the key is there
Missing_AbsentOnly(arguments, key) == key \notin DOMAIN arguments

\* an absent argument taken for a present one
Missing_Never(arguments, key) == FALSE

\* `if not query`, `if not table_name`: the argument is absent or empty
Missing(arguments, key) == Get(arguments, key, <<>>) = <<>>

\* an unknown tool name answered with an empty result
UnknownTool_Silent(st, name) == Returns(JsonText(<<>>), st, <<>>)

\* the else branch of call_tool: no tool has this name
UnknownTool(st, name) == Raises("ValueError", "Unknown tool: ", name, st, <<>>)

\* a dispatcher that also answers to query_database, as an alias of
\* execute_query
call_tool_try_QueryDatabase(st, fails, name, arguments) ==
    IF name \in {ExecuteQueryTool, QueryDatabaseTool}
    THEN IF Missing(arguments, "query")
         THEN Raises("ValueError", "Query is required", <<>>, st, <<>>)
         ELSE JsonDumps(execute_query(st, fails, Get(arguments, "query", <<>>),
                                      <<>>))
    ELSE IF name = GetTableSchemaTool
    THEN IF Missing(arguments, "table_name")
         THEN Raises("ValueError", "Table name is required", <<>>, st, <<>>)
         ELSE TableSchema(get_schema(st, fails),
                          Get(arguments, "table_name", <<>>))
    ELSE IF name = ListTablesTool
    THEN TableNames(get_schema(st, fails))
    ELSE IF name = GetTableDataTool
    THEN IF Missing(arguments, "table_name")
         THEN Raises("ValueError", "Table name is required", <<>>, st, <<>>)
         ELSE JsonDumps(get_table_data(st, fails,
                                       Get(arguments, "table_name", <<>>),
                                       Get(arguments, "limit", DefaultLimit)))
    ELSE IF name = CreateSampleDataTool
    THEN SampleDataCreated(create_sample_data(st, fails))
    ELSE UnknownTool(st, name)

\* the try block of call_tool(name, arguments)
call_tool_try(st, fails, name, arguments) ==
    IF name = ExecuteQueryTool
    THEN IF Missing(arguments, "query")
         THEN Raises("ValueError", "Query is required", <<>>, st, <<>>)
         ELSE JsonDumps(execute_query(st, fails, Get(arguments, "query", <<>>),
                                      <<>>))
    ELSE IF name = GetTableSchemaTool
    THEN IF Missing(arguments, "table_name")
         THEN Raises("ValueError", "Table name is required", <<>>, st, <<>>)
         ELSE TableSchema(get_schema(st, fails),
                          Get(arguments, "table_name", <<>>))
    ELSE IF name = ListTablesTool
    THEN TableNames(get_schema(st, fails))
    ELSE IF name = GetTableDataTool
    THEN IF Missing(arguments, "table_name")
         THEN Raises("ValueError", "Table name is required", <<>>, st, <<>>)
         ELSE JsonDumps(get_table_data(st, fails,
                                       Get(arguments, "table_name", <<>>),
                                       Get(arguments, "limit", DefaultLimit)))
    ELSE IF name = CreateSampleDataTool
    THEN SampleDataCreated(create_sample_data(st, fails))
    ELSE UnknownTool(st, name)

\* call_tool without its except clause
call_tool_except_Escapes(r) ==
    IF r.raised THEN HandlerRaises(r) ELSE HandlerReturns(<<TextContent(r.value)>>, r)

\* call_tool answering an exception with a fixed text
call_tool_except_NoMessage(r) ==
    IF r.raised THEN HandlerReturns(<<TextContent(Literal("Error"))>>, r)
    ELSE HandlerReturns(<<TextContent(r.value)>>, r)

\* the except clause of call_tool: log, and return the error as a text block
call_tool_except(r) ==
    IF r.raised THEN HandlerReturns(<<TextContent(ErrorText(r.msg, r.arg))>>, r)
    ELSE HandlerReturns(<<TextContent(r.value)>>, r)

\* call_tool(name, arguments)
call_tool(st, fails, name, arguments) ==
    call_tool_except(call_tool_try(st, fails, name, arguments))

-----------------------------------------------------------------------------
(* Query strings handed to execute_query directly, as the repository's     *)
(* test_query_validation does: every concatenation of at most MaxFrags     *)
(* fragments, and the queries the tests and the documentation name.        *)

Fragments == {
    <<" ">>,
    <<"NBSP">>,
    <<"S","E","L","E","C","T">>,
    <<"s","e","l","e","c","t">>,
    <<"LONGS","e","l","e","c","t">>,
    <<"D","R","O","P">>,
    <<"d","r","o","p">>,
    <<"D","E","L","E","T","E">>,
    <<"U","P","D","A","T","E">>,
    <<"C","R","E","A","T","E">>,
    <<" ","*"," ","F","R","O","M"," ","u","s","e","r","s">>
}

ExampleQueries == {
    <<"S","E","L","E","C","T"," ","*"," ","F","R","O","M"," ","u","s","e","r","s">>,
    <<"s","e","l","e","c","t"," ","n","a","m","e",","," ","e","m","a","i","l"," ","f","r","o","m"," ","u","s","e","r","s"," ","w","h","e","r","e"," ","a","g","e"," ",">"," ","2","5">>,
    <<"S","E","L","E","C","T"," ","C","O","U","N","T","(","*",")"," ","F","R","O","M"," ","p","r","o","d","u","c","t","s">>,
    <<"S","E","L","E","C","T"," ","*"," ","F","R","O","M"," ","u","s","e","r","s"," ","L","I","M","I","T"," ","1","0">>,
    <<"D","R","O","P"," ","T","A","B","L","E"," ","u","s","e","r","s">>,
    <<"D","E","L","E","T","E"," ","F","R","O","M"," ","u","s","e","r","s">>,
    <<"U","P","D","A","T","E"," ","u","s","e","r","s"," ","S","E","T"," ","a","g","e"," ","="," ","3","0">>,
    <<"I","N","S","E","R","T"," ","I","N","T","O"," ","u","s","e","r","s"," ","V","A","L","U","E","S"," ","(","1",")">>,
    <<"A","L","T","E","R"," ","T","A","B","L","E"," ","u","s","e","r","s"," ","A","D","D"," ","C","O","L","U","M","N"," ","t","e","s","t"," ","T","E","X","T">>,
    <<"S","E","L","E","C","T"," ","*"," ","F","R","O","M"," ","u","s","e","r","s",";"," ","D","R","O","P"," ","T","A","B","L","E"," ","u","s","e","r","s">>,
    <<"S","E","L","E","C","T"," ","'","u","p","d","a","t","e","'"," ","A","S"," ","s","t","a","t","u","s">>,
    <<" "," ","s","e","l","e","c","t"," ","*"," ","f","r","o","m"," ","u","s","e","r","s"," "," ">>,
    <<"C","R","E","A","T","E"," ","T","A","B","L","E"," ","n","o","t","e","s">>,
    <<"NBSP","D","R","O","P"," ","T","A","B","L","E"," ","u","s","e","r","s">>,
    <<"LONGS","e","l","e","c","t"," ","1">>,
    <<"S","E","L","E","C","T">>,
    <<"S","E","L","E","C","T"," ","c","r","e","a","t","e","d","_","a","t"," ","F","R","O","M"," ","u","s","e","r","s">>,
    <<"S","E","L","E","C","T"," ","n","a","m","e"," ","A","S"," ","i","n","s","e","r","t","e","d"," ","F","R","O","M"," ","u","s","e","r","s">>,
    <<"S","E","L","E","C","T"," ","'","W","a","l","t","e","r","'"," ","F","R","O","M"," ","u","s","e","r","s">>,
    <<"S","E","L","E","C","T"," ","d","e","l","e","t","e","d",","," ","d","r","o","p","p","e","d"," ","F","R","O","M"," ","u","s","e","r","s">>
}

RECURSIVE Flatten(_)
Flatten(fs) == IF fs = <<>> THEN <<>> ELSE Head(fs) \o Flatten(Tail(fs))

GuardInputs ==
    ExampleQueries \cup
    {Flatten(fs) : fs \in UNION {[1..n -> Fragments] : n \in 0..MaxFrags}}

NoCall == [called |-> FALSE]

\* db.execute_query(input), called on the database object itself
DirectExecuteQuery ==
    /\ last = NoCall
    /\ LET r == execute_query(store, storeFails, input, <<>>)
       IN  /\ last' = [called |-> TRUE, query |-> input, raised |-> r.raised,
                       exc |-> r.exc, msg |-> r.msg, arg |-> r.arg,
                       value |-> r.value, ops |-> r.ops, before |-> store,
                       statement |-> r.statement, bound |-> r.bound]
           /\ store' = r.store
    /\ UNCHANGED <<storeFails, input, wire, current, outcome, responses,
                   session, initialized, eof, nextId>>

NoRequest == [id |-> 0, method |-> "", params |-> <<>>]
NoOutcome == [kind |-> "none"]

InitGuard ==
    /\ store = SeededStore
    /\ storeFails \in BOOLEAN
    /\ input \in GuardInputs
    /\ last = NoCall
    /\ wire = <<>>
    /\ current = NoRequest
    /\ outcome = NoOutcome
    /\ responses = <<>>
    /\ session = "running"
    /\ initialized = FALSE
    /\ eof = FALSE
    /\ nextId = 1

SpecGuard == InitGuard /\ [][DirectExecuteQuery]_vars

-----------------------------------------------------------------------------
(* The Session: SQLiteMCPServer.run hands the two streams to the protocol  *)
(* library's Server.run, which the repository does not contain.  Its loop  *)
(* is modelled from the specification: read one message, dispatch it to    *)
(* the registered handler, write one response carrying the request's       *)
(* correlation token, repeat until the stream closes.  A correlation token *)
(* is the request's number of arrival.                                     *)

ToolNames == {ExecuteQueryTool, GetTableSchemaTool, ListTablesTool,
              GetTableDataTool, CreateSampleDataTool}

\* the argument objects of the tools/call requests of the model
QueryArguments == {<<>>} \cup {("query" :> q) : q \in ExampleQueries \cup {<<>>}}
\* table names a request can carry
TableNameInputs ==
    {users, updates, events, sqlitex, my_table_1, <<>>, <<"n","o","s","u","c","h">>, <<"u","s","e","r","s",";"," ","D","R","O","P"," ","T","A","B","L","E"," ","x">>, <<".",".","/","e","t","c">>,
     <<"u","LONGS","e","r","s">>, <<"_">>}
TableArguments ==
    {<<>>} \cup
    {("table_name" :> n) : n \in TableNameInputs} \cup
    {("table_name" :> users) @@ ("limit" :> l) : l \in {0, 2}}

ToolCalls ==
    {[name |-> ExecuteQueryTool, arguments |-> a] : a \in QueryArguments} \cup
    {[name |-> QueryDatabaseTool, arguments |-> a] :
        a \in {<<>>, ("table_name" :> users)} \cup
              {("query" :> q) : q \in {<<"S","E","L","E","C","T"," ","C","O","U","N","T","(","*",")"," ","a","s"," ","u","s","e","r","_","c","o","u","n","t"," ","F","R","O","M"," ","u","s","e","r","s">>,
                                       <<"D","R","O","P"," ","T","A","B","L","E"," ","u","s","e","r","s">>}}} \cup
    {[name |-> n, arguments |-> a] :
        n \in {GetTableSchemaTool, GetTableDataTool}, a \in TableArguments} \cup
    {[name |-> n, arguments |-> <<>>] : n \in {ListTablesTool, CreateSampleDataTool}}

Uris ==
    {SchemaUri, <<"s","q","l","i","t","e",":","/","/","o","t","h","e","r">>} \cup
    {TablePrefix \o n : n \in TableNameInputs \cup {<<"x","/","u","s","e","r","s">>}}

\* the contents a message of the peer can have
Messages ==
    {[method |-> m, params |-> <<>>] :
        m \in {"initialize", "resources/list", "tools/list", "invalid/method"}} \cup
    {[method |-> "resources/read", params |-> [uri |-> u]] : u \in Uris} \cup
    {[method |-> "tools/call", params |-> c] : c \in ToolCalls}

HandledMethods == {"resources/list", "resources/read", "tools/list", "tools/call"}

Idle == current = NoRequest
\* a Session that hands requests to the handlers before the handshake
Dispatching_BeforeHandshake(m) ==
    /\ session = "running"
    /\ current.method = m
    /\ outcome = NoOutcome

Dispatching(m) ==
    /\ session = "running"
    /\ current.method = m
    /\ outcome = NoOutcome
    /\ initialized

\* the place in the stream of the message the Session reads: the newest
NextMessage_Newest(w) == Len(w)

\* the place in the stream of the message the Session reads: the oldest
NextMessage(w) == 1

\* the stream without the message at place k
Unread(w, k) == SubSeq(w, 1, k - 1) \o SubSeq(w, k + 1, Len(w))

\* the peer writes a message to the stream
PeerSend ==
    /\ ~eof
    /\ nextId <= MaxRequests
    /\ Len(wire) < MaxWire
    /\ wire' = Append(wire, nextId)
    /\ nextId' = nextId + 1
    /\ UNCHANGED <<store, storeFails, input, last, current, outcome, responses,
                   session, initialized, eof>>

\* the peer closes the stream
PeerClose ==
    /\ ~eof
    /\ eof' = TRUE
    /\ UNCHANGED <<store, storeFails, input, last, wire, current, outcome,
                   responses, session, initialized, nextId>>

\* the Session reads the next message
SessionRead ==
    /\ session = "running"
    /\ Idle
    /\ wire /= <<>>
    /\ \E m \in Messages :
          current' = [id |-> wire[NextMessage(wire)], method |-> m.method,
                      params |-> m.params]
    /\ wire' = Unread(wire, NextMessage(wire))
    /\ outcome' = NoOutcome
    /\ UNCHANGED <<store, storeFails, input, last, responses, session,
                   initialized, eof, nextId>>

\* the Session finds the stream closed and ends
SessionEnd ==
    /\ session = "running"
    /\ Idle
    /\ wire = <<>>
    /\ eof
    /\ session' = "closed"
    /\ UNCHANGED <<store, storeFails, input, last, wire, current, outcome,
                   responses, initialized, eof, nextId>>

\* the answer the Session gives by itself, without a handler
SessionAnswers(k, failure) ==
    [kind |-> k, value |-> <<>>, failed |-> failure /= "", msg |-> failure,
     arg |-> <<>>, store |-> store, ops |-> <<>>]

\* the initialize handshake
Initialize ==
    /\ session = "running"
    /\ current.method = "initialize"
    /\ outcome = NoOutcome
    /\ outcome' = SessionAnswers("return", "")
    /\ initialized' = TRUE
    /\ UNCHANGED <<store, storeFails, input, last, wire, current, responses,
                   session, eof, nextId>>

\* the Session answering a request it has no handler for with an empty result
SessionRejects_AsResult ==
    /\ session = "running"
    /\ ~Idle
    /\ outcome = NoOutcome
    /\ current.method /= "initialize"
    /\ current.method \notin HandledMethods \/ ~initialized
    /\ outcome' = SessionAnswers("return", "")
    /\ UNCHANGED <<store, storeFails, input, last, wire, current, responses,
                   session, initialized, eof, nextId>>

\* a method no handler is registered for, or a request before the handshake
SessionRejects ==
    /\ session = "running"
    /\ ~Idle
    /\ outcome = NoOutcome
    /\ current.method /= "initialize"
    /\ current.method \notin HandledMethods \/ ~initialized
    /\ outcome' = SessionAnswers("error", IF current.method \in HandledMethods
                                          THEN "Received request before initialization"
                                          ELSE "Method not found")
    /\ UNCHANGED <<store, storeFails, input, last, wire, current, responses,
                   session, initialized, eof, nextId>>

ListResources ==
    /\ Dispatching("resources/list")
    /\ outcome' = list_resources(store, storeFails)
    /\ store' = outcome'.store
    /\ UNCHANGED <<storeFails, input, last, wire, current, responses, session,
                   initialized, eof, nextId>>

ReadResource ==
    /\ Dispatching("resources/read")
    /\ outcome' = read_resource(store, storeFails, current.params.uri)
    /\ store' = outcome'.store
    /\ UNCHANGED <<storeFails, input, last, wire, current, responses, session,
                   initialized, eof, nextId>>

ListTools ==
    /\ Dispatching("tools/list")
    /\ outcome' = HandlerReturns(list_tools, Returns(<<>>, store, <<>>))
    /\ UNCHANGED <<store, storeFails, input, last, wire, current, responses,
                   session, initialized, eof, nextId>>

CallTool ==
    /\ Dispatching("tools/call")
    /\ outcome' = call_tool(store, storeFails, current.params.name,
                            current.params.arguments)
    /\ store' = outcome'.store
    /\ UNCHANGED <<storeFails, input, last, wire, current, responses, session,
                   initialized, eof, nextId>>

\* the response the Session makes of what the handler did: a returned value is
\* the result payload, an error of the Session's own the error payload
Response(req, out) ==
    [id |-> req.id,
     payload |-> IF out.kind = "return" THEN "result" ELSE "error",
     failed |-> out.failed]

\* the Session writes the response; what it does with an exception that a
\* handler let escape is the library's business, and either may happen: it
\* answers with an error, or the loop ends on the fault
SessionWrite ==
    /\ session = "running"
    /\ ~Idle
    /\ outcome /= NoOutcome
    /\ \E survives \in BOOLEAN :
          IF outcome.kind /= "raise" \/ survives
          THEN /\ responses' = Append(responses, Response(current, outcome))
               /\ session' = session
          ELSE /\ responses' = responses
               /\ session' = "crashed"
    /\ current' = NoRequest
    /\ outcome' = NoOutcome
    /\ UNCHANGED <<store, storeFails, input, last, wire, initialized, eof, nextId>>

Init ==
    /\ store \in InitialStores
    /\ storeFails \in BOOLEAN
    /\ input = <<>>
    /\ last = NoCall
    /\ wire = <<>>
    /\ current = NoRequest
    /\ outcome = NoOutcome
    /\ responses = <<>>
    /\ session = "running"
    /\ initialized = FALSE
    /\ eof = FALSE
    /\ nextId = 1

Next ==
    \/ PeerSend
    \/ PeerClose
    \/ SessionRead
    \/ SessionEnd
    \/ Initialize
    \/ SessionRejects
    \/ ListResources
    \/ ReadResource
    \/ ListTools
    \/ CallTool
    \/ SessionWrite

Spec == Init /\ [][Next]_vars

\* Runs in which the process can be stopped from outside.  main() starts the
\* loop with asyncio.run(server.run()) and installs no signal handler, so a
\* termination signal ends the process wherever it is: between two requests,
\* or with a request in hand.
Interrupt ==
    /\ session = "running"
    /\ session' = "interrupted"
    /\ UNCHANGED <<store, storeFails, input, last, wire, current, outcome,
                   responses, initialized, eof, nextId>>

SessionStep ==
    \/ SessionRead
    \/ SessionEnd
    \/ Initialize
    \/ SessionRejects
    \/ ListResources
    \/ ReadResource
    \/ ListTools
    \/ CallTool
    \/ SessionWrite

InitSignals == Init /\ store = SeededStore

NextSignals ==
    \/ PeerSend
    \/ PeerClose
    \/ SessionStep
    \/ Interrupt

\* a step of the Session is possible: it is running and has a request in hand,
\* a message to read or a closed stream to notice
StepGuard == session = "running" /\ (~Idle \/ wire /= <<>> \/ eof)

\* The loop does nothing but read, dispatch and write, so the Session takes a
\* step whenever one stays possible: weak fairness of SessionStep, written
\* with StepGuard for ENABLED <<SessionStep>>_vars and with the change of
\* current, outcome or session that every step of the Session makes.
SessionFairness ==
    \/ []<>(~StepGuard)
    \/ []<><<StepGuard>>_<<current, outcome, session>>

SpecSignals == InitSignals /\ [][NextSignals]_vars /\ SessionFairness

-----------------------------------------------------------------------------
(* The claims.  C1 to C4 are about execute_query as a function of the      *)
(* query string and are checked under SpecGuard; the others are about the  *)
(* Session and its handlers and are checked under Spec.                    *)

\* the trimmed, uppercased copy of the query of the last direct call
WorkingCopy == Upper(Strip(last.query))

\* the forbidden substrings the working copy contains, by their place in the
\* fixed order DROP, DELETE, UPDATE, INSERT, ALTER, CREATE
Forbidden ==
    {i \in 1..6 : Contains(WorkingCopy,
                           <<DROP, DELETE, UPDATE, INSERT, ALTER, CREATE>>[i])}

\* C1: a query whose trimmed, uppercased copy does not start with SELECT is
\* rejected with the not-a-select reason, whatever else it contains
C1_NotSelectRejected ==
    (last.called /\ ~StartsWith(WorkingCopy, SELECT))
        => /\ last.raised
           /\ last.exc = "ValueError"
           /\ last.msg = OnlySelectMsg

\* a query that does not start with SELECT and contains a forbidden substring
\* has been rejected
C1_Witness ==
    /\ last.called
    /\ ~StartsWith(WorkingCopy, SELECT)
    /\ Forbidden /= {}
    /\ last.raised

\* C2: a SELECT-prefixed query that contains a forbidden substring anywhere is
\* rejected, and the reason names the first of DROP, DELETE, UPDATE, INSERT,
\* ALTER, CREATE, in that order, that it contains
C2_FirstPatternNamed ==
    (last.called /\ StartsWith(WorkingCopy, SELECT) /\ Forbidden /= {})
        => /\ last.raised
           /\ last.exc = "ValueError"
           /\ last.msg = DangerousMsg
           /\ \E i \in Forbidden :
                 /\ \A j \in Forbidden : i <= j
                 /\ last.arg = <<DROP, DELETE, UPDATE, INSERT, ALTER, CREATE>>[i]

\* a SELECT-prefixed query in which DELETE stands before DROP has been rejected
\* naming DROP
C2_Witness ==
    /\ last.called
    /\ StartsWith(WorkingCopy, SELECT)
    /\ {1, 2} \subseteq Forbidden
    /\ IndexOf(WorkingCopy, DELETE) < IndexOf(WorkingCopy, DROP)
    /\ last.arg = DROP

\* C3: a SELECT-prefixed query that contains none of the six forbidden
\* substrings is not rejected by the guard and is handed to the store; a query
\* is either rejected by the guard, the store untouched, or handed to the store
C3_SafePassedToStore ==
    /\ (last.called /\ StartsWith(WorkingCopy, SELECT) /\ Forbidden = {})
          => /\ last.exc /= "ValueError"
             /\ last.ops /= <<>>
             /\ Head(last.ops) = Connect
             /\ ~storeFails => SubSeq(last.ops, 1, 2) = <<Connect, Execute>>
    /\ last.called
          => \/ last.raised /\ last.exc = "ValueError" /\ last.ops = <<>>
             \/ last.exc /= "ValueError" /\ last.ops /= <<>>

\* the lower-case query of the tests has been handed to the store and executed
C3_Witness ==
    /\ last.called
    /\ last.query = <<"s","e","l","e","c","t"," ","n","a","m","e",","," ","e","m","a","i","l"," ","f","r","o","m"," ","u","s","e","r","s"," ","w","h","e","r","e"," ","a","g","e"," ",">"," ","2","5">>
    /\ ~last.raised
    /\ last.ops = <<Connect, Execute, Commit>>

\* C4: when the guard rejects a query, execute_query raises the validation
\* error without opening a connection or executing a statement, and the store
\* is what it was
C4_RejectedWithoutStorage ==
    (last.called /\ (~StartsWith(WorkingCopy, SELECT) \/ Forbidden /= {}))
        => /\ last.raised
           /\ last.exc = "ValueError"
           /\ last.ops = <<>>
           /\ store = last.before

\* DROP TABLE users has been rejected and the users table is still there
C4_Witness ==
    /\ last.called
    /\ last.query = <<"D","R","O","P"," ","T","A","B","L","E"," ","u","s","e","r","s">>
    /\ last.raised
    /\ users \in DOMAIN store

\* the Session is running the execute_query tool
RunningExecuteQuery ==
    /\ current.method = "tools/call"
    /\ current.params.name = ExecuteQueryTool

\* C5: no tools/call of execute_query changes the tables or the rows of the
\* store, whatever the query string
C5_ExecuteQueryKeepsStore == [][RunningExecuteQuery => store' = store]_vars

\* execute_query has answered DROP TABLE users, DELETE FROM users or CREATE
\* TABLE notes with a failure and the store is the seeded one
C5_Witness ==
    /\ RunningExecuteQuery
    /\ outcome /= NoOutcome
    /\ outcome.kind = "return"
    /\ outcome.failed
    /\ "query" \in DOMAIN current.params.arguments
    /\ Word(current.params.arguments["query"], 1) \in {DROP, DELETE, CREATE}
    /\ store = SeededStore

\* the requests the Session has read
ReadIds == (1..(nextId - 1)) \ Range(wire)
\* the number of responses that carry the correlation token id
Answers(id) == Cardinality({i \in DOMAIN responses : responses[i].id = id})

\* C6: every request the Session has read has exactly one response with its
\* correlation token once it has been handled, and none before; a request the
\* Session has not read has none
C6_ExactlyOneResponse ==
    \A id \in 1..(nextId - 1) :
        Answers(id) = IF id \in ReadIds /\ id /= current.id THEN 1 ELSE 0

\* three requests have been answered, a failed one among them
C6_Witness ==
    /\ Len(responses) >= 3
    /\ \E i \in DOMAIN responses : responses[i].failed
    /\ \E i \in DOMAIN responses : ~responses[i].failed

\* C7: the Session ends only when the peer has closed the stream; no failed
\* request ends it
C7_SessionSurvivesFailures ==
    \/ session = "running"
    \/ session = "closed" /\ eof /\ wire = <<>>

\* after two failed requests the Session is handling a third
C7_Witness ==
    /\ session = "running"
    /\ ~Idle
    /\ Len(responses) >= 2
    /\ \A i \in DOMAIN responses : responses[i].failed

\* C8: responses are written in the order of arrival of their requests, the
\* request in hand arrived after every answered one and before every unread
\* one
C8_ResponsesInOrder ==
    /\ \A i, j \in DOMAIN responses : i < j => responses[i].id < responses[j].id
    /\ \A i \in DOMAIN responses : ~Idle => responses[i].id < current.id
    /\ \A k \in DOMAIN wire : ~Idle => current.id < wire[k]
    /\ \A k \in DOMAIN wire : \A i \in DOMAIN responses : responses[i].id < wire[k]

\* two requests wait unread while an earlier one is in hand
C8_Witness ==
    /\ ~Idle
    /\ Len(wire) >= 2
    /\ Len(responses) >= 1

\* C9: a failed request is answered with the error payload set, never with a
\* result payload
C9_FailureIsErrorPayload ==
    \A i \in DOMAIN responses : responses[i].failed => responses[i].payload = "error"

\* the handler of `current` has run
HandlerRan ==
    /\ current.method \in {"tools/call", "resources/read"}
    /\ outcome /= NoOutcome
    /\ outcome.kind /= "error"

\* C10: call_tool and read_resource always return to the Session, and what
\* they return for a failure carries the failure's message
C10_NoFaultEscapes ==
    HandlerRan
        => /\ outcome.kind = "return"
           /\ (outcome.failed /\ current.method = "tools/call")
                 => outcome.value = <<TextContent(ErrorText(outcome.msg, outcome.arg))>>
           /\ (outcome.failed /\ current.method = "resources/read")
                 => outcome.value = ErrorJson(outcome.msg, outcome.arg)

\* with the store out of reach, a tool call and a resource read have returned
\* the storage error
C10_Witness ==
    /\ storeFails
    /\ HandlerRan
    /\ outcome.kind = "return"
    /\ outcome.failed
    /\ outcome.msg = "unable to open database file"

\* the Session hands the tools/call request in hand to call_tool
CallingTool == Dispatching("tools/call") /\ outcome' /= NoOutcome

RequiredIsAbsent ==
    \/ /\ current.params.name = ExecuteQueryTool
       /\ "query" \notin DOMAIN current.params.arguments
    \/ /\ current.params.name \in {GetTableSchemaTool, GetTableDataTool}
       /\ "table_name" \notin DOMAIN current.params.arguments

\* C12: a call of execute_query without query, or of get_table_schema or
\* get_table_data without table_name, is answered with the missing-argument
\* error; neither the storage nor the query guard has been reached and the
\* store stays as it was
C12_MissingArgumentRejected ==
    [][(CallingTool /\ RequiredIsAbsent)
        => /\ outcome'.failed
           /\ outcome'.msg = IF current.params.name = ExecuteQueryTool
                             THEN "Query is required"
                             ELSE "Table name is required"
           /\ outcome'.ops = <<>>
           /\ store' = store]_vars

\* get_table_data has been called without table_name and has been refused
C12_Witness ==
    /\ current.method = "tools/call"
    /\ current.params.name = GetTableDataTool
    /\ RequiredIsAbsent
    /\ outcome /= NoOutcome
    /\ outcome.kind = "return"
    /\ outcome.msg = "Table name is required"
    /\ store = SeededStore

\* the request in hand has a method the protocol of the server does not have
UnknownMethod ==
    /\ ~Idle
    /\ current.method \notin {"initialize", "resources/list", "resources/read",
                              "tools/list", "tools/call"}

\* C13: a request with an unknown method is given to no handler, its response
\* is an error response with the request's correlation token, and the Session
\* goes on running
C13_UnknownMethodRejected ==
    [][UnknownMethod
        => /\ outcome' /= NoOutcome => (outcome'.kind = "error" /\ outcome'.ops = <<>>)
           /\ store' = store
           /\ session' = "running"
           /\ responses' /= responses
                => /\ responses' = Append(responses,
                                          [id |-> current.id, payload |-> "error",
                                           failed |-> TRUE])]_vars

\* after the handshake, a request with an unknown method has been answered and
\* the Session is serving the request that came after it
C13_Witness ==
    /\ initialized
    /\ Len(responses) >= 2
    /\ responses[1].payload = "result"
    /\ responses[2].payload = "error"
    /\ current.method = "tools/list"
    /\ outcome /= NoOutcome
    /\ session = "running"

\* the request in hand reads the rows of a table: the get_table_data tool with
\* a table name, or resources/read of a per-table URI
TableDataRead ==
    \/ /\ current.method = "tools/call"
       /\ current.params.name = GetTableDataTool
       /\ "table_name" \in DOMAIN current.params.arguments
       /\ current.params.arguments["table_name"] /= <<>>
    \/ /\ current.method = "resources/read"
       /\ StartsWith(current.params.uri, TablePrefix)

\* the table name that read hands to get_table_data
ReadTableName ==
    IF current.method = "tools/call"
    THEN current.params.arguments["table_name"]
    ELSE LastSegment(current.params.uri)

\* ASCII letters, ASCII digits, underscore and hyphen
AsciiNameChars ==
    {"a","b","c","d","e","f","g","h","i","j","k","l","m",
     "n","o","p","q","r","s","t","u","v","w","x","y","z",
     "A","B","C","D","E","F","G","H","I","J","K","L","M",
     "N","O","P","Q","R","S","T","U","V","W","X","Y","Z",
     "0","1","2","3","4","5","6","7","8","9","_","-"}

\* C14: a table-data read whose table name has a character that is no ASCII
\* letter, ASCII digit, underscore or hyphen is refused as an invalid table
\* name before any storage access
C14_OtherCharactersRejected ==
    (HandlerRan /\ TableDataRead /\ ~(Range(ReadTableName) \subseteq AsciiNameChars))
        => /\ outcome.failed
           /\ outcome.msg = "Invalid table name"
           /\ outcome.ops = <<>>

\* C15: no table-data read whose table name is not empty and is made of ASCII
\* letters, ASCII digits, underscores and hyphens only is refused as an
\* invalid table name
C15_AsciiNamesAccepted ==
    (HandlerRan /\ TableDataRead /\ ReadTableName /= <<>>
                /\ Range(ReadTableName) \subseteq AsciiNameChars)
        => outcome.msg /= "Invalid table name"

\* C16: a table-data read whose table name passes the validation of
\* get_table_data is never refused by the query guard
C16_TableReadNotGuarded ==
    (HandlerRan /\ TableDataRead
                /\ IsAlnum(Remove(Remove(ReadTableName, "_"), "-")))
        => outcome.msg \notin {"Only SELECT queries are allowed for safety",
                               "Query contains dangerous pattern: "}

\* the store holds every sample row, as it does once create_sample_data has
\* been called
SampleDataPresent ==
    /\ users \in DOMAIN store
    /\ products \in DOMAIN store
    /\ Range(SampleUsers) \subseteq Range(store[users])
    /\ Range(SampleProducts) \subseteq Range(store[products])

\* C17: once create_sample_data has been called, a further call leaves the
\* number of rows of users and of products as it was
C17_SampleDataIdempotent ==
    [][(CallingTool /\ current.params.name = CreateSampleDataTool
                    /\ SampleDataPresent)
        => /\ Len(store'[users]) = Len(store[users])
           /\ Len(store'[products]) = Len(store[products])]_vars

\* the smaller of two numbers
Min(a, b) == IF a <= b THEN a ELSE b

\* the get_table_data tool has been called for a table the store has, with a
\* limit that is absent or a non-negative integer, the store being in reach
ExistingTableRead ==
    /\ HandlerRan
    /\ current.method = "tools/call"
    /\ current.params.name = GetTableDataTool
    /\ "table_name" \in DOMAIN current.params.arguments
    /\ current.params.arguments["table_name"] \in DOMAIN store
    /\ "limit" \in DOMAIN current.params.arguments
          => current.params.arguments["limit"] \in Nat
    /\ ~storeFails

\* C18: get_table_data on a table of the store with N rows returns
\* min(limit, N) rows, and min(100, N) rows when no limit is given
C18_LimitedRows ==
    ExistingTableRead
        => /\ ~outcome.failed
           /\ Len(outcome.value[1].text.data) =
                 Min(IF "limit" \in DOMAIN current.params.arguments
                     THEN current.params.arguments["limit"] ELSE 100,
                     Len(store[current.params.arguments["table_name"]]))

\* the tables of the store that are not SQLite's own
UserTables ==
    {t \in DOMAIN store : ~StartsWith(t, <<"s","q","l","i","t","e","_">>)}

\* list_resources has run for the request in hand
ListingRan ==
    /\ current.method = "resources/list"
    /\ outcome /= NoOutcome
    /\ outcome.kind /= "error"

\* C19: with the store in reach, resources/list returns the schema resource
\* first and after it one resource for each user table the store has at that
\* moment, and nothing else
C19_ListingMatchesStore ==
    (ListingRan /\ ~storeFails)
        => /\ outcome.kind = "return"
           /\ Len(outcome.value) = 1 + Cardinality(UserTables)
           /\ outcome.value[1] = Resource(SchemaUri)
           /\ \A t \in UserTables :
                 \E i \in 2..Len(outcome.value) :
                    outcome.value[i] = Resource(TablePrefix \o t)

\* C20: when the schema lookup fails, list_resources still returns to the
\* Session, with the schema resource and no other, and the Session is running
C20_ListingToleratesFailure ==
    (ListingRan /\ get_schema(store, storeFails).raised)
        => /\ outcome.kind = "return"
           /\ ~outcome.failed
           /\ outcome.value = <<Resource(SchemaUri)>>
           /\ session = "running"

\* with the store out of reach, resources/list has returned the schema
\* resource alone, after an earlier request was answered
C20_Witness ==
    /\ storeFails
    /\ ListingRan
    /\ outcome.kind = "return"
    /\ outcome.value = <<Resource(SchemaUri)>>
    /\ Len(responses) >= 1
    /\ session = "running"

\* list_tools has run for the request in hand
ToolListingRan ==
    /\ current.method = "tools/list"
    /\ outcome /= NoOutcome
    /\ outcome.kind /= "error"

PerTableUri(uri) ==
    /\ StartsWith(uri, TablePrefix)
    /\ Len(uri) > Len(TablePrefix)
    /\ "/" \notin Range(From(uri, Len(TablePrefix) + 1))

\* read_resource has run for the request in hand
ResourceReadRan ==
    /\ current.method = "resources/read"
    /\ HandlerRan

\* C22: resources/read of a URI that is neither the schema URI nor the
\* per-table prefix followed by one name is answered with an error and reads
\* no table
C22_OtherUriNotFound ==
    (ResourceReadRan /\ current.params.uri /= SchemaUri
                     /\ ~PerTableUri(current.params.uri))
        => /\ outcome.failed
           /\ outcome.ops = <<>>

\* C23: resources/read of a per-table URI returns at most 50 rows, and
\* resources/read of the schema URI, the store being in reach, returns every
\* user table of the store once
C23_RowCapAndFullSchema ==
    /\ (ResourceReadRan /\ StartsWith(current.params.uri, TablePrefix)
                        /\ ~outcome.failed)
          => Len(outcome.value.data) <= 50
    /\ (ResourceReadRan /\ current.params.uri = SchemaUri /\ ~storeFails)
          => /\ ~outcome.failed
             /\ Len(outcome.value.data) = Cardinality(UserTables)
             /\ {outcome.value.data[i].name : i \in DOMAIN outcome.value.data}
                   = UserTables

\* the request in hand is a listing or a call
ListingOrCall ==
    current.method \in {"resources/list", "resources/read", "tools/list", "tools/call"}

\* C24: the handshake is completed once, by an initialize request, and stays
\* completed; a listing or call request that is in hand before that is given
\* to no handler and its response is an error, not a result
C24_HandshakeFirst ==
    [][/\ (~initialized /\ initialized') => current.method = "initialize"
       /\ initialized => initialized'
       /\ (~initialized /\ ListingOrCall)
             => /\ store' = store
                /\ outcome' /= NoOutcome
                      => (outcome'.kind = "error" /\ outcome'.ops = <<>>)
                /\ responses' /= responses
                      => responses' = Append(responses,
                                             [id |-> current.id, payload |-> "error",
                                              failed |-> TRUE])]_vars

\* a tools/call that came before the handshake has been refused
C24_Witness ==
    /\ ~initialized
    /\ current.method = "tools/call"
    /\ outcome /= NoOutcome
    /\ outcome.kind = "error"
    /\ outcome.msg = "Received request before initialization"

\* the get_table_schema tool has run with a table name, the schema listing
\* being available
TableSchemaRan ==
    /\ HandlerRan
    /\ current.method = "tools/call"
    /\ current.params.name = GetTableSchemaTool
    /\ "table_name" \in DOMAIN current.params.arguments
    /\ current.params.arguments["table_name"] /= <<>>
    /\ ~get_schema(store, storeFails).raised

\* the names list_tables returns at this point
ListedTables ==
    Range(call_tool(store, storeFails, ListTablesTool, <<>>).value[1].text.data)

C27_OnlySampleDataWrites ==
    [][store' /= store
          => (CallingTool /\ current.params.name = CreateSampleDataTool)]_vars

\* after create_sample_data has changed the store, a table-data read has
\* returned rows
C27_Witness ==
    /\ HandlerRan
    /\ TableDataRead
    /\ ~outcome.failed
    /\ Len(responses) >= 2
    /\ store \notin InitialStores

\* the list_tables tool has run, the store being in reach
ListTablesRan ==
    /\ HandlerRan
    /\ current.method = "tools/call"
    /\ current.params.name = ListTablesTool
    /\ ~storeFails

\* C25: the schema listing has every table of the store whose name does not
\* begin with sqlite_, each once, in ascending order of name
C25_SchemaListsUserTables ==
    ListTablesRan
        => /\ ~outcome.failed
           /\ Len(outcome.value[1].text.data) = Cardinality(UserTables)
           /\ Range(outcome.value[1].text.data) = UserTables
           /\ \A i, j \in DOMAIN outcome.value[1].text.data :
                 i < j => Less(outcome.value[1].text.data[i],
                               outcome.value[1].text.data[j])

C29_CleanTermination ==
    /\ [](session /= "running"
            => /\ Idle
               /\ \A id \in ReadIds : Answers(id) = 1)
    /\ [][session /= "running" => responses' = responses]_vars
    /\ (eof ~> session /= "running")

ListedTableUris ==
    {r.uri : r \in Range(list_resources(store, storeFails).value)} \ {SchemaUri}

\* C31: resources/read of a per-table URI that resources/list returns on the
\* same store is not answered with an error: it returns the rows of the table
\* the URI names, the first 50 at most
C31_ListedUriReadable ==
    (ResourceReadRan /\ current.params.uri \in ListedTableUris)
        => /\ ~outcome.failed
           /\ LastSegment(current.params.uri) \in DOMAIN store
           /\ outcome.value.data
                 = Limit(store[LastSegment(current.params.uri)], ResourceRowCap)

\* the tool names tools/list advertises
Advertised == {e.name : e \in Range(list_tools)}

RequiredIsEmpty ==
    \/ /\ current.params.name = ExecuteQueryTool
       /\ "query" \in DOMAIN current.params.arguments
       /\ current.params.arguments["query"] = <<>>
    \/ /\ current.params.name \in {GetTableSchemaTool, GetTableDataTool}
       /\ "table_name" \in DOMAIN current.params.arguments
       /\ current.params.arguments["table_name"] = <<>>

\* C33: a call of execute_query whose query is the empty string is answered
\* with Query is required, not with a refusal of the query guard, and a call of
\* get_table_schema or get_table_data whose table_name is the empty string is
\* answered with Table name is required; no storage is touched
C33_EmptyArgumentIsMissing ==
    [][(CallingTool /\ RequiredIsEmpty)
        => /\ outcome'.failed
           /\ outcome'.msg = IF current.params.name = ExecuteQueryTool
                             THEN "Query is required"
                             ELSE "Table name is required"
           /\ outcome'.value = <<TextContent(ErrorText(outcome'.msg, <<>>))>>
           /\ outcome'.ops = <<>>
           /\ store' = store]_vars

\* execute_query has been called with the empty string as its query on a
\* store in reach and was answered with Query is required
C33_Witness ==
    /\ current.method = "tools/call"
    /\ current.params.name = ExecuteQueryTool
    /\ RequiredIsEmpty
    /\ ~storeFails
    /\ outcome /= NoOutcome
    /\ outcome.kind = "return"
    /\ outcome.msg = "Query is required"
    /\ outcome.ops = <<>>

=============================================================================
